---- MODULE Spec2Model ----
(***************************************************************************)
(* A model of neolink's rtsp subcommand (src/rtsp/mod.rs) and of the       *)
(* NeoRtspServer it drives (src/rtsp/gst/server.rs).                       *)
(*                                                                         *)
(*  - one supervisor task per camera: the loop of main() around            *)
(*    camera_main(), with its backoff;                                     *)
(*  - camera_main(): connect, login, stream, the wait for the buffers,     *)
(*    and the streaming/paused cycle with its races;                       *)
(*  - the rtsp task (NeoRtspServer::join over the server's threads), the   *)
(*    glib main loop and the factory threads;                              *)
(*  - the join loop of main();                                            *)
(*  - the registry of NeoRtspServerImpl: medias, the path set of each      *)
(*    tag and the mount points, with create_stream, add_path, remove_path  *)
(*    and remove_stream.                                                   *)
(*                                                                         *)
(* Durations are in microseconds.                                          *)
(***************************************************************************)
EXTENDS Integers, Sequences, FiniteSets, TLC

VARIABLES
    cameras,    \* config.cameras: camera name -> [on_motion, on_disconnect, motion_timeout, tags]
    budget,     \* what the model explores: the retries of each supervisor, the events it logs
    state,      \* the typestate of each Camera<_>, "Moved" once camera_main consumed it
    pc,         \* where each supervisor task stands
    backoff,    \* the supervisor's local `backoff`
    slept,      \* the duration of the supervisor's last tokio::time::sleep (0: none yet)
    failure,    \* the failure camera_main ended with: its kind and, for login(), its cause
    trigger,    \* the branch of the streaming select! that fired last
    seenReady,  \* the tags that answered buffer_ready = Some(true) during the present wait
    lastCmd,    \* the last FactoryCommand sent on each tag's channel
    medias,     \* the keys of NeoRtspServerImpl::medias
    paths,      \* FactoryData.paths of each tag ({} for a tag medias does not hold)
    mounts,     \* the server's mount points: path -> the tag whose factory is mounted, or "None"
    removing,   \* the FactoryData a remove_stream in progress took out of medias (it holds the write lock)
    lastCall,   \* the last call of a registry operation: its arguments and its result
    threadSt,   \* the tasks of NeoRtspServerImpl::threads: "running" or "joined"
    main_loop,  \* the glib MainLoop: "running" or "quit"
    taskRes,    \* the result of each task of main()'s JoinSet
    doneQ,      \* finished tasks main() has not joined yet, in the order they finished
    mainPc,     \* where main() stands
    mainErr,    \* the task whose failure main() returns
    seen,       \* history: what the last poll of the present wait of camera_main read
    log         \* history: what camera_main read and sent since stream(), in order

supVars  == <<state, pc, backoff, slept, failure, trigger, seenReady>>
regVars  == <<lastCmd, medias, paths, mounts, removing, lastCall>>
srvVars  == <<threadSt, main_loop>>
mainVars == <<mainPc, mainErr>>
vars == <<cameras, budget, state, pc, backoff, slept, failure, trigger, seenReady,
          lastCmd, medias, paths, mounts, removing, lastCall, threadSt, main_loop, taskRes, doneQ, mainPc, mainErr, seen, log>>

-----------------------------------------------------------------------------
(* Program constants *)

\* Duration::from_micros(125)
BackoffFloor == 125
\* Duration::from_secs(5)
BackoffLimit == 5000000

(* Bounds of the model *)

\* Retryable failures each supervisor may have when several cameras run
MaxRetriesFleet == 1
\* Retryable failures the supervisor may have when one camera runs
MaxRetriesSolo == 18
\* the largest per-tag client count a poll may see
MaxClients == 1
\* Retryable failures the supervisor may have when its events are logged, or
\* when the registry changes under it
MaxRetriesLive == 1
\* the events of one camera_main call that the log keeps
MaxEvents == 11
\* pause.motion_timeout of every camera, in ticks of the motion listener
MotionTimeout == 2
\* the longest stop of motion the listener may report, in the same ticks
MaxStill == 3

-----------------------------------------------------------------------------
(* Configurations *)

PauseFlags == [on_motion : BOOLEAN, on_disconnect : BOOLEAN]

\* one camera with a main and a sub stream, any pause configuration
SoloCameras ==
    { [c \in {"cam1"} |->
         [on_motion |-> f.on_motion, on_disconnect |-> f.on_disconnect,
          motion_timeout |-> MotionTimeout,
          tags |-> {"cam1::main", "cam1::sub"}]] : f \in PauseFlags }

\* two cameras with one stream each; between them the two fleets have every
\* pause configuration
Camera(m, d, tags) ==
    [on_motion |-> m, on_disconnect |-> d, motion_timeout |-> MotionTimeout, tags |-> tags]

FleetCameras ==
    { [c \in {"cam1", "cam2"} |->
         IF c = "cam1" THEN Camera(TRUE, both, {"cam1::main"})
                       ELSE Camera(FALSE, ~both, {"cam2::main"})] : both \in BOOLEAN }

Cams    == DOMAIN cameras
TagsOf(c) == cameras[c].tags
AllTags == UNION { TagsOf(c) : c \in Cams }
RtspTask == "rtsp"
Tasks   == Cams \cup {RtspTask}
MainLoopThread == "main_loop"
Threads == AllTags \cup {MainLoopThread}
\* the path each stream is mounted at
PathOf(t) == "/" \o t
AllPaths == {PathOf(t) : t \in AllTags}

-----------------------------------------------------------------------------
(* Pure parts of the supervisor *)

\* a backoff that starts over once it has passed the limit
NextBackoff_StartsOver(b) == IF b < BackoffLimit THEN 2 * b ELSE BackoffFloor

\* if backoff < Duration::from_secs(5) { backoff *= 2; }
NextBackoff(b) == IF b < BackoffLimit THEN 2 * b ELSE b

\* a retry that keeps the connection of the failed attempt
RetryState_Stale == "Connected"

\* camera = Camera { shared, state: Disconnected {} }
RetryState == "Disconnected"

\* the map_err closure of login(): the error is downcast to neolink_core::Error
\* and unwrapped, then matched
ClassifyLoginError(e) ==
    IF e = "NotCoreError" THEN "Panic"
    ELSE IF e = "CameraLoginFail" THEN "Fatal"
    ELSE "Retry"

\* the errors login() can fail with: the rejection, another neolink_core::Error,
\* an anyhow::Error that holds no neolink_core::Error
LoginErrors == {"CameraLoginFail", "OtherCoreError", "NotCoreError"}

\* a match whose Retry arm returns the error as the Fatal arm does
SupervisorMatch_RetryEscapes(kind) ==
    CASE kind = "Fatal" -> "return_err"
      [] kind = "Retry" -> "return_err"
      [] kind = "Ok"    -> "break"

\* match failure { Fatal => return Err, Retry => sleep and loop, Ok => break }
SupervisorMatch(kind) ==
    CASE kind = "Fatal" -> "return_err"
      [] kind = "Retry" -> "retry"
      [] kind = "Ok"    -> "break"

\* what each specification explores: so many Retryable failures per supervisor,
\* so many logged events per camera_main call
FleetBudget == [retries |-> MaxRetriesFleet, events |-> 0]
SoloBudget  == [retries |-> MaxRetriesSolo, events |-> 0]
LiveBudget  == [retries |-> MaxRetriesLive, events |-> MaxEvents]
RegistryBudget == [retries |-> MaxRetriesLive, events |-> 0]

RetryBudget == budget.retries

MayFail(c) == backoff[c] < BackoffFloor * (2 ^ RetryBudget)

\* a client poll that runs whatever the configuration
ClientEnabled_Always(c) == TRUE

\* the preconditions of the select! branches
MotionEnabled(c) == cameras[c].on_motion
ClientEnabled(c) == cameras[c].on_disconnect

\* a gate that one ready tag opens: any() for all()
AllBuffersReady_Any(c, r) == \E t \in TagsOf(c) : t \in medias /\ r[t]

\* f.unwrap_or(false) over buffer_ready(tag) of every tag, then all()
AllBuffersReady(c, r) == \A t \in TagsOf(c) : t \in medias /\ r[t]

\* fold(0, |acc, f| acc + f.unwrap_or(0)) over get_number_of_clients(tag)
RECURSIVE SumClients(_, _)
SumClients(S, n) ==
    IF S = {} THEN 0
    ELSE LET t == CHOOSE x \in S : TRUE
         IN (IF t \in medias THEN n[t] ELSE 0) + SumClients(S \ {t}, n)

total_clients(c, n) == SumClients(TagsOf(c), n)

\* a test that takes one client for none
NoClients_OffByOne(total) == total <= 1

\* if total_clients == 0
NoClients(total) == total = 0

\* a test that any count passes
SomeClients_Always(total) == total >= 0

\* if total_clients > 0
SomeClients(total) == total > 0

\* a wait for the stop of motion without the timeout, as await_start is called
StopTimeout_Zero(c) == 0

\* Duration::from_secs_f64(streaming.get_config().pause.motion_timeout)
StopTimeout(c) == cameras[c].motion_timeout

\* motion.await_stop(min_duration) resolves once motion has been stopped for
\* min_duration; a stop that ends sooner leaves it waiting
await_stop(still, min_duration) == still >= min_duration

\* sender.send(cmd) on every tag that get_sender finds; the results are dropped
SendAll(c, cmd) ==
    [t \in DOMAIN lastCmd |-> IF t \in TagsOf(c) /\ t \in medias THEN cmd ELSE lastCmd[t]]

\* the tags of the camera that get_sender finds
Reached(c) == {t \in TagsOf(c) : t \in medias}

-----------------------------------------------------------------------------
(* Two histories of each camera_main call, kept when budget.events > 0.     *)
(*                                                                         *)
(* seen: the readings of the last poll of the present wait.                *)
(*                                                                         *)
(* log: the events since stream(), in order: the inputs of camera_main     *)
(* (its readings and the results of join()) and the commands it sent. The  *)
(* log follows the scenarios of Scripts: it is kept while its inputs begin *)
(* one of them and it holds budget.events events at most, and reads Lost   *)
(* from there on.                                                          *)

Event(what, val) == [what |-> what, val |-> val]

Lost == <<Event("lost", 0)>>

\* the events that are inputs: readings of the registry and of the motion
\* listener, and join() resolving
Inputs == {"ready", "clients", "still", "start", "join"}

InputsOf(l) == SelectSeq(l, LAMBDA e : e.what \in Inputs)

IsPrefix(a, b) == Len(a) <= Len(b) /\ SubSeq(b, 1, Len(a)) = a

\* both tags are ready at the third poll of the buffers, then the stream fails
StreamErrorScripts ==
    { <<Event("ready", a), Event("ready", b), Event("ready", 2), Event("join", 0)>> :
        a \in 0..1, b \in 0..1 }

\* both tags are ready at once, then the client polls count 1, 1, 0, 0, 2
ClientsScript ==
    <<Event("ready", 2), Event("clients", 1), Event("clients", 1), Event("clients", 0),
      Event("clients", 0), Event("clients", 2)>>

Scripts == StreamErrorScripts \cup {ClientsScript}

Keep(l, evs) ==
    IF /\ l # Lost
       /\ Len(l \o evs) <= budget.events
       /\ \E s \in Scripts : IsPrefix(InputsOf(l \o evs), s)
    THEN l \o evs ELSE Lost

Logs(c, evs) ==
    log' = IF budget.events = 0 THEN log ELSE [log EXCEPT ![c] = Keep(@, evs)]

\* a poll made the readings `evs`
Sees(c, evs) ==
    /\ seen' = IF budget.events = 0 THEN seen ELSE [seen EXCEPT ![c] = evs]
    /\ Logs(c, evs)

\* a step that is no poll, with the events it makes: the readings of the wait
\* it ends are dropped
Acts(c, evs) ==
    /\ seen' = [seen EXCEPT ![c] = <<>>]
    /\ Logs(c, evs)

\* a step that leaves both histories alone
Quiet == UNCHANGED <<seen, seen, log>>

\* a command went to the tags get_sender found
Sent(c, cmd) == Event(cmd, Cardinality(Reached(c)))

\* join() resolved
Result(what, res) == Event(what, IF res = "Ok" THEN 1 ELSE 0)

-----------------------------------------------------------------------------
(* Initial states: main() has built the cameras (their tags are in the      *)
(* registry), spawned one supervisor per camera, run() the server and       *)
(* spawned the rtsp task.                                                   *)

NoFailure == [kind |-> "None", cause |-> "None"]

\* a call of a registry operation on `t` with the paths `ps`, and its result
Call(op, t, ps, res) == [op |-> op, tag |-> t, ps |-> ps, res |-> res]
NoCall == Call("None", "None", {}, "None")

\* no remove_stream is in progress
NoRemoval == [tag |-> "None", paths |-> {}, left |-> {}]

\* self.medias.write() / .read() returns: no writer holds the RwLock. The
\* registry operations keep the write guard for their whole body; only
\* remove_stream is followed step by step
Unlocked == removing = NoRemoval

InitWith(cfgs) ==
    /\ cameras \in cfgs
    /\ state = [c \in Cams |-> "Disconnected"]
    /\ pc = [c \in Cams |-> "connect"]
    /\ backoff = [c \in Cams |-> BackoffFloor]
    /\ slept = [c \in Cams |-> 0]
    /\ failure = [c \in Cams |-> NoFailure]
    /\ trigger = [c \in Cams |-> "None"]
    /\ seenReady = [c \in Cams |-> {}]
    /\ lastCmd = [t \in AllTags |-> "None"]
    /\ medias = AllTags
    /\ paths = [t \in AllTags |-> {PathOf(t)}]
    /\ mounts = [p \in AllPaths |-> CHOOSE t \in AllTags : PathOf(t) = p]
    /\ removing = NoRemoval
    /\ lastCall = NoCall
    /\ threadSt = [th \in Threads |-> "running"]
    /\ main_loop = "running"
    /\ taskRes = [t \in Tasks |-> "running"]
    /\ doneQ = <<>>
    /\ mainPc = "join_next"
    /\ mainErr = "None"
    /\ seen = [c \in Cams |-> <<>>]
    /\ log = [c \in Cams |-> <<>>]

Init == InitWith(FleetCameras) /\ budget = FleetBudget
InitSolo == InitWith(SoloCameras) /\ budget = SoloBudget
InitLive == InitWith(SoloCameras) /\ budget = LiveBudget
InitRegistry == InitWith(SoloCameras) /\ budget = RegistryBudget

\* tasks that share one lock with login(): none runs while another logs in
Running_Serialised(c) ==
    taskRes[c] = "running" /\ \A o \in Cams \ {c} : pc[o] # "login"

\* the task is in the JoinSet and has not finished: the runtime polls it
Running(c) == taskRes[c] = "running"

-----------------------------------------------------------------------------
(* The supervisor task: what it does with the result of camera_main *)

\* camera_main returned a failure of `kind`, caused by `cause`: the arms of
\* `match failure`
Returns(c, kind, cause) ==
    LET arm == SupervisorMatch(kind) IN
    /\ state' = [state EXCEPT ![c] = "Moved"]
    /\ trigger' = [trigger EXCEPT ![c] = "None"]
    /\ seenReady' = [seenReady EXCEPT ![c] = {}]
    /\ failure' = [failure EXCEPT ![c] = [kind |-> kind, cause |-> cause]]
    /\ UNCHANGED <<backoff, slept>>
    /\ IF arm = "retry"
       THEN /\ pc' = [pc EXCEPT ![c] = "sleep"]
            /\ UNCHANGED <<taskRes, doneQ>>
       ELSE /\ pc' = [pc EXCEPT ![c] = "ended"]
            /\ taskRes' = [taskRes EXCEPT ![c] = IF arm = "return_err" THEN "Err" ELSE "Ok"]
            /\ doneQ' = Append(doneQ, c)

\* a Retryable failure of camera_main
Retry(c, cause) == MayFail(c) /\ Returns(c, "Retry", cause)

\* the task panics
Panics(c, cause) ==
    /\ state' = [state EXCEPT ![c] = "Moved"]
    /\ trigger' = [trigger EXCEPT ![c] = "None"]
    /\ seenReady' = [seenReady EXCEPT ![c] = {}]
    /\ failure' = [failure EXCEPT ![c] = [kind |-> "Panic", cause |-> cause]]
    /\ pc' = [pc EXCEPT ![c] = "ended"]
    /\ taskRes' = [taskRes EXCEPT ![c] = "Panic"]
    /\ doneQ' = Append(doneQ, c)
    /\ UNCHANGED <<backoff, slept>>

\* camera_main goes on: new typestate, new position
Goes(c, st, next) ==
    /\ state' = [state EXCEPT ![c] = st]
    /\ pc' = [pc EXCEPT ![c] = next]
    /\ UNCHANGED <<backoff, slept, failure, trigger, seenReady, taskRes, doneQ>>

\* tokio::time::sleep(backoff).await
Sleep(c) ==
    /\ Running(c) /\ pc[c] = "sleep"
    /\ slept' = [slept EXCEPT ![c] = backoff[c]]
    /\ pc' = [pc EXCEPT ![c] = "wake"]
    /\ UNCHANGED <<cameras, budget, state, backoff, failure, trigger, seenReady,
                   regVars, srvVars, taskRes, doneQ, mainVars, seen, log>>

\* the rest of the Retry arm, and the loop back to camera_main
Wake(c) ==
    /\ Running(c) /\ pc[c] = "wake"
    /\ backoff' = [backoff EXCEPT ![c] = NextBackoff(backoff[c])]
    /\ state' = [state EXCEPT ![c] = RetryState]
    /\ failure' = [failure EXCEPT ![c] = NoFailure]
    /\ pc' = [pc EXCEPT ![c] = "connect"]
    /\ seen' = [seen EXCEPT ![c] = <<>>]
    /\ log' = [log EXCEPT ![c] = <<>>]
    /\ UNCHANGED <<cameras, budget, slept, trigger, seenReady,
                   regVars, srvVars, taskRes, doneQ, mainVars>>

-----------------------------------------------------------------------------
(* camera_main *)

Outcomes == {"Ok", "Err"}

\* camera.connect()
Connect(c) ==
    /\ Running(c) /\ pc[c] = "connect" /\ state[c] = "Disconnected"
    /\ \E res \in Outcomes :
         IF res = "Ok" THEN Goes(c, "Connected", "login")
                       ELSE Retry(c, "Other")
    /\ UNCHANGED <<cameras, budget, regVars, srvVars, mainVars, seen, log>>

\* connected.login(), its error classified; then loggedin.manage(), its result dropped
Login(c) ==
    /\ Running(c) /\ pc[c] = "login" /\ state[c] = "Connected"
    /\ \E res \in {"Ok"} \cup LoginErrors :
         IF res = "Ok" THEN Goes(c, "LoggedIn", "stream")
         ELSE LET kind == ClassifyLoginError(res) IN
              CASE kind = "Panic" -> Panics(c, res)
                [] kind = "Fatal" -> Returns(c, "Fatal", res)
                [] kind = "Retry" -> Retry(c, res)
    /\ UNCHANGED <<cameras, budget, regVars, srvVars, mainVars, seen, log>>

\* loggedin.stream()
Stream(c) ==
    /\ Running(c) /\ pc[c] = "stream" /\ state[c] = "LoggedIn"
    /\ \E res \in Outcomes :
         IF res = "Ok" THEN Goes(c, "Streaming", "buffers")
                       ELSE Retry(c, "Other")
    /\ UNCHANGED <<cameras, budget, regVars, srvVars, mainVars, seen, log>>

\* one tick of the wait for the buffers: buffer_ready of every tag, then all()
BufferPoll(c) ==
    /\ Running(c) /\ pc[c] = "buffers" /\ state[c] = "Streaming"
    /\ Unlocked
    /\ \E r \in [TagsOf(c) -> BOOLEAN] :
         /\ seenReady' = [seenReady EXCEPT
                            ![c] = @ \cup {t \in TagsOf(c) : t \in medias /\ r[t]}]
         /\ pc' = [pc EXCEPT ![c] = IF AllBuffersReady(c, r) THEN "live" ELSE "buffers"]
         /\ Sees(c, <<Event("ready", Cardinality({t \in Reached(c) : r[t]}))>>)
    /\ UNCHANGED <<cameras, budget, state, backoff, slept, failure, trigger,
                   regVars, srvVars, taskRes, doneQ, mainVars>>

\* the other branch of that select!: streaming.join() resolves, `=> v`
BufferJoin(c) ==
    /\ Running(c) /\ pc[c] = "buffers" /\ state[c] = "Streaming"
    /\ \E v \in Outcomes :
         /\ IF v = "Ok" THEN Goes(c, "Streaming", "live")
                        ELSE Retry(c, "Other")
         /\ Acts(c, <<Result("join", v)>>)
    /\ UNCHANGED <<cameras, budget, regVars, srvVars, mainVars>>

\* jump_to_live and clear_session_notready of every tag: "Buffers prepared"
GoLive(c) ==
    /\ Running(c) /\ pc[c] = "live" /\ state[c] = "Streaming"
    /\ Unlocked
    /\ lastCmd' = SendAll(c, "JumpToLive")
    /\ Acts(c, <<Sent(c, "JumpToLive")>>)
    /\ pc' = [pc EXCEPT ![c] = "streaming"]
    /\ seenReady' = [seenReady EXCEPT ![c] = {}]
    /\ UNCHANGED <<cameras, budget, state, backoff, slept, failure, trigger,
                   medias, paths, mounts, removing, lastCall, srvVars, taskRes, doneQ, mainVars>>

\* a branch of the streaming select! fired with Ok: on to the pause commands
Fires(c, branch) ==
    /\ trigger' = [trigger EXCEPT ![c] = branch]
    /\ pc' = [pc EXCEPT ![c] = "pause"]
    /\ UNCHANGED <<state, backoff, slept, failure, seenReady, taskRes, doneQ>>

\* a join() whose Ok ends camera_main with Ok(())
StreamingJoin_EndsOk(c) ==
    /\ Running(c) /\ pc[c] = "streaming" /\ state[c] = "Streaming"
    /\ \E v \in Outcomes :
         /\ IF v = "Ok" THEN Returns(c, "Ok", "None") ELSE Retry(c, "Other")
         /\ Acts(c, <<Result("join", v)>>)
    /\ UNCHANGED <<cameras, budget, regVars, srvVars, mainVars>>

\* streaming.join() resolves: "Join Pause"
StreamingJoin(c) ==
    /\ Running(c) /\ pc[c] = "streaming" /\ state[c] = "Streaming"
    /\ \E v \in Outcomes :
         /\ IF v = "Ok" THEN Fires(c, "Join") ELSE Retry(c, "Other")
         /\ Acts(c, <<Result("join", v)>>)
    /\ UNCHANGED <<cameras, budget, regVars, srvVars, mainVars>>

\* the select! goes on waiting
Waits(c) == UNCHANGED supVars /\ UNCHANGED <<taskRes, doneQ>>

\* listen_on_motion()?, then await_stop(motion_timeout): "Motion Pause".
\* The listener fails, or reports a stop of motion that lasted `still`
MotionStop(c) ==
    /\ Running(c) /\ pc[c] = "streaming" /\ state[c] = "Streaming"
    /\ MotionEnabled(c)
    /\ \E v \in Outcomes :
         IF v = "Err" THEN Retry(c, "Other") /\ Acts(c, <<>>)
         ELSE \E still \in 1..MaxStill :
                /\ IF await_stop(still, StopTimeout(c)) THEN Fires(c, "Motion")
                   ELSE Waits(c)
                /\ Sees(c, <<Event("still", still)>>)
    /\ UNCHANGED <<cameras, budget, regVars, srvVars, mainVars>>

\* one tick of the client poll: "Client Pause" when no tag has a client
ClientStop(c) ==
    /\ Running(c) /\ pc[c] = "streaming" /\ state[c] = "Streaming"
    /\ Unlocked
    /\ ClientEnabled(c)
    /\ \E n \in [TagsOf(c) -> 0..MaxClients] :
         /\ IF NoClients(total_clients(c, n)) THEN Fires(c, "Client")
            ELSE Waits(c)
         /\ Sees(c, <<Event("clients", total_clients(c, n))>>)
    /\ UNCHANGED <<cameras, budget, regVars, srvVars, mainVars>>

\* a pause sequence that goes to stop() without sending Pause
PauseCmds_NoSend(c) ==
    /\ Running(c) /\ pc[c] = "pause" /\ state[c] = "Streaming"
    /\ Acts(c, <<>>)
    /\ pc' = [pc EXCEPT ![c] = "stop"]
    /\ UNCHANGED <<cameras, budget, state, backoff, slept, failure, trigger, seenReady,
                   regVars, srvVars, taskRes, doneQ, mainVars>>

\* rtsp_thread.pause(tag) of every tag
PauseCmds(c) ==
    /\ Running(c) /\ pc[c] = "pause" /\ state[c] = "Streaming"
    /\ Unlocked
    /\ lastCmd' = SendAll(c, "Pause")
    /\ Acts(c, <<Sent(c, "Pause")>>)
    /\ pc' = [pc EXCEPT ![c] = "stop"]
    /\ UNCHANGED <<cameras, budget, state, backoff, slept, failure, trigger, seenReady,
                   medias, paths, mounts, removing, lastCall, srvVars, taskRes, doneQ, mainVars>>

\* a stop that gives the session up: the resume has to connect and log in again
Stop_Disconnects(c) ==
    /\ Running(c) /\ pc[c] = "stop" /\ state[c] = "Streaming"
    /\ \E res \in Outcomes :
         IF res = "Ok" THEN Goes(c, "Disconnected", "connect")
                       ELSE Retry(c, "Other")
    /\ Quiet
    /\ UNCHANGED <<cameras, budget, regVars, srvVars, mainVars>>

\* streaming.stop()
Stop(c) ==
    /\ Running(c) /\ pc[c] = "stop" /\ state[c] = "Streaming"
    /\ \E res \in Outcomes :
         IF res = "Ok" THEN Goes(c, "Paused", "paused")
                       ELSE Retry(c, "Other")
    /\ Quiet
    /\ UNCHANGED <<cameras, budget, regVars, srvVars, mainVars>>

\* the paused select! resolved with Ok: on to jump_to_live
Resumes(c) == Goes(c, "Paused", "jump")

\* on_motion && on_disconnect: listen_on_motion()?, then loop { await_start()?;
\* total_clients > 0 => Ok; tick }: "Motion and Client Resume"
MotionClientStart(c) ==
    /\ Running(c) /\ pc[c] = "paused" /\ state[c] = "Paused"
    /\ Unlocked
    /\ MotionEnabled(c) /\ ClientEnabled(c)
    /\ \E v \in Outcomes :
         IF v = "Err" THEN Retry(c, "Other") /\ Acts(c, <<>>)
         ELSE \E n \in [TagsOf(c) -> 0..MaxClients] :
                /\ IF SomeClients(total_clients(c, n)) THEN Resumes(c)
                   ELSE Waits(c)
                /\ Sees(c, <<Event("start", 0), Event("clients", total_clients(c, n))>>)
    /\ UNCHANGED <<cameras, budget, regVars, srvVars, mainVars>>

\* a motion branch that is enabled whatever on_disconnect is
MotionStart_BothToo(c) ==
    /\ Running(c) /\ pc[c] = "paused" /\ state[c] = "Paused"
    /\ MotionEnabled(c)
    /\ \E v \in Outcomes :
         IF v = "Ok" THEN Resumes(c) /\ Sees(c, <<Event("start", 0)>>)
                     ELSE Retry(c, "Other") /\ Acts(c, <<>>)
    /\ UNCHANGED <<cameras, budget, regVars, srvVars, mainVars>>

\* on_motion && !on_disconnect: listen_on_motion()?, await_start(): "Motion Resume"
MotionStart(c) ==
    /\ Running(c) /\ pc[c] = "paused" /\ state[c] = "Paused"
    /\ MotionEnabled(c) /\ ~ClientEnabled(c)
    /\ \E v \in Outcomes :
         IF v = "Ok" THEN Resumes(c) /\ Sees(c, <<Event("start", 0)>>)
                     ELSE Retry(c, "Other") /\ Acts(c, <<>>)
    /\ UNCHANGED <<cameras, budget, regVars, srvVars, mainVars>>

\* a client poll of the paused select! that runs whatever the flags are
ClientStart_Unguarded(c) ==
    /\ Running(c) /\ pc[c] = "paused" /\ state[c] = "Paused"
    /\ \E n \in [TagsOf(c) -> 0..MaxClients] :
         /\ IF SomeClients(total_clients(c, n)) THEN Resumes(c)
            ELSE Waits(c)
         /\ Sees(c, <<Event("clients", total_clients(c, n))>>)
    /\ UNCHANGED <<cameras, budget, regVars, srvVars, mainVars>>

\* on_disconnect && !on_motion: one tick of the client poll: "Client Resume"
ClientStart(c) ==
    /\ Running(c) /\ pc[c] = "paused" /\ state[c] = "Paused"
    /\ Unlocked
    /\ ClientEnabled(c) /\ ~MotionEnabled(c)
    /\ \E n \in [TagsOf(c) -> 0..MaxClients] :
         /\ IF SomeClients(total_clients(c, n)) THEN Resumes(c)
            ELSE Waits(c)
         /\ Sees(c, <<Event("clients", total_clients(c, n))>>)
    /\ UNCHANGED <<cameras, budget, regVars, srvVars, mainVars>>

\* else: "Generic Resume"
GenericResume(c) ==
    /\ Running(c) /\ pc[c] = "paused" /\ state[c] = "Paused"
    /\ ~MotionEnabled(c) /\ ~ClientEnabled(c)
    /\ Resumes(c)
    /\ UNCHANGED <<cameras, budget, regVars, srvVars, mainVars, seen, log>>

\* rtsp_thread.jump_to_live(tag) of every tag
JumpCmds(c) ==
    /\ Running(c) /\ pc[c] = "jump" /\ state[c] = "Paused"
    /\ Unlocked
    /\ lastCmd' = SendAll(c, "JumpToLive")
    /\ Acts(c, <<Sent(c, "JumpToLive")>>)
    /\ pc' = [pc EXCEPT ![c] = "restream"]
    /\ UNCHANGED <<cameras, budget, state, backoff, slept, failure, trigger, seenReady,
                   medias, paths, mounts, removing, lastCall, srvVars, taskRes, doneQ, mainVars>>

\* a restart whose failure is not looked at: on with the resume commands
Restream_Unchecked(c) ==
    /\ Running(c) /\ pc[c] = "restream" /\ state[c] = "Paused"
    /\ \E res \in Outcomes :
         IF res = "Ok" THEN Goes(c, "Streaming", "resume")
                       ELSE Goes(c, "Paused", "resume")
    /\ Quiet
    /\ UNCHANGED <<cameras, budget, regVars, srvVars, mainVars>>

\* paused.stream()
Restream(c) ==
    /\ Running(c) /\ pc[c] = "restream" /\ state[c] = "Paused"
    /\ \E res \in Outcomes :
         IF res = "Ok" THEN Goes(c, "Streaming", "resume")
                       ELSE Retry(c, "Other")
    /\ Quiet
    /\ UNCHANGED <<cameras, budget, regVars, srvVars, mainVars>>

\* rtsp_thread.resume(tag) of every tag, and back to the streaming select!
ResumeCmds(c) ==
    /\ Running(c) /\ pc[c] = "resume" /\ state[c] = "Streaming"
    /\ Unlocked
    /\ lastCmd' = SendAll(c, "Resume")
    /\ Acts(c, <<Sent(c, "Resume")>>)
    /\ pc' = [pc EXCEPT ![c] = "streaming"]
    /\ trigger' = [trigger EXCEPT ![c] = "None"]
    /\ UNCHANGED <<cameras, budget, state, backoff, slept, failure, seenReady,
                   medias, paths, mounts, removing, lastCall, srvVars, taskRes, doneQ, mainVars>>

\* one step of some supervisor task
SupervisorStep ==
    \/ \E c \in Cams : Connect(c)
    \/ \E c \in Cams : Login(c)
    \/ \E c \in Cams : Stream(c)
    \/ \E c \in Cams : BufferPoll(c)
    \/ \E c \in Cams : BufferJoin(c)
    \/ \E c \in Cams : GoLive(c)
    \/ \E c \in Cams : StreamingJoin(c)
    \/ \E c \in Cams : MotionStop(c)
    \/ \E c \in Cams : ClientStop(c)
    \/ \E c \in Cams : PauseCmds(c)
    \/ \E c \in Cams : Stop(c)
    \/ \E c \in Cams : MotionClientStart(c)
    \/ \E c \in Cams : MotionStart(c)
    \/ \E c \in Cams : ClientStart(c)
    \/ \E c \in Cams : GenericResume(c)
    \/ \E c \in Cams : JumpCmds(c)
    \/ \E c \in Cams : Restream(c)
    \/ \E c \in Cams : ResumeCmds(c)
    \/ \E c \in Cams : Sleep(c)
    \/ \E c \in Cams : Wake(c)

-----------------------------------------------------------------------------
(* The server's threads and the rtsp task *)

Alive == mainPc # "exited"

\* NeoRtspServer::join: while let Some(thread) = threads.join_next() { thread??; } Ok(())
\* join_next yields thread `th`, which ended with `res`
Joins(th, res) ==
    /\ threadSt' = [threadSt EXCEPT ![th] = "joined"]
    /\ IF res = "Err"
       THEN /\ taskRes' = [taskRes EXCEPT ![RtspTask] = "Err"]
            /\ doneQ' = Append(doneQ, RtspTask)
       ELSE IF \A o \in Threads \ {th} : threadSt[o] = "joined"
       THEN /\ taskRes' = [taskRes EXCEPT ![RtspTask] = "Ok"]
            /\ doneQ' = Append(doneQ, RtspTask)
       ELSE UNCHANGED <<taskRes, doneQ>>

\* main_loop_thread.run() returns Ok once the loop is quit, and is joined
RtspJoinMainLoop ==
    /\ Alive /\ taskRes[RtspTask] = "running"
    /\ threadSt[MainLoopThread] = "running" /\ main_loop = "quit"
    /\ Joins(MainLoopThread, "Ok")
    /\ UNCHANGED <<cameras, budget, supVars, regVars, main_loop, mainVars, seen, log>>

\* thread_media.join() of a tag's factory returns, and is joined
RtspJoinFactory(t) ==
    /\ Alive /\ taskRes[RtspTask] = "running"
    /\ threadSt[t] = "running"
    /\ \E res \in Outcomes : Joins(t, res)
    /\ UNCHANGED <<cameras, budget, supVars, regVars, main_loop, mainVars, seen, log>>

-----------------------------------------------------------------------------
(* The registry: operations on NeoRtspServerImpl::medias *)

\* mounts.add_factory(path, media.factory.clone()) for each path
Mount(t, ps) == [p \in DOMAIN mounts |-> IF p \in ps THEN t ELSE mounts[p]]

\* mounts.remove_factory(path) for each path
Unmount(ps) == [p \in DOMAIN mounts |-> IF p \in ps THEN "None" ELSE mounts[p]]

\* a test that takes every path for one the tag holds
Held_Unchecked(t, ps) == ps

\* if media.paths.contains(&path.to_string())
Held(t, ps) == ps \cap paths[t]

\* create_stream(tag): a vacant entry gets a new factory with no path, and a
\* task for it in threads; an occupied entry is left alone; Ok(()) always
CreateStream(t) ==
    /\ Unlocked
    /\ IF t \in medias
       THEN UNCHANGED <<medias, paths, lastCmd, threadSt>>
       ELSE /\ medias' = medias \cup {t}
            /\ paths' = [paths EXCEPT ![t] = {}]
            /\ lastCmd' = [lastCmd EXCEPT ![t] = "None"]
            /\ threadSt' = [threadSt EXCEPT ![t] = "running"]
    /\ lastCall' = Call("create_stream", t, {}, "Ok")
    /\ UNCHANGED <<cameras, budget, supVars, mounts, removing, main_loop, taskRes, doneQ,
                   mainVars, seen, log>>

\* add_path(tag, paths): each path is recorded for the tag and the tag's
\* factory mounted at it; Err when medias does not hold the tag
AddPath(t, ps) ==
    /\ Unlocked
    /\ IF t \in medias
       THEN /\ paths' = [paths EXCEPT ![t] = @ \cup ps]
            /\ mounts' = Mount(t, ps)
            /\ lastCall' = Call("add_path", t, ps, "Ok")
       ELSE /\ UNCHANGED <<paths, mounts>>
            /\ lastCall' = Call("add_path", t, ps, "Err")
    /\ UNCHANGED <<cameras, budget, supVars, lastCmd, medias, removing, srvVars, taskRes,
                   doneQ, mainVars, seen, log>>

\* remove_path(tag, paths): each path the tag holds is forgotten and its
\* mount removed; Err when medias does not hold the tag
RemovePath(t, ps) ==
    /\ Unlocked
    /\ IF t \in medias
       THEN /\ paths' = [paths EXCEPT ![t] = @ \ Held(t, ps)]
            /\ mounts' = Unmount(Held(t, ps))
            /\ lastCall' = Call("remove_path", t, ps, "Ok")
       ELSE /\ UNCHANGED <<paths, mounts>>
            /\ lastCall' = Call("remove_path", t, ps, "Err")
    /\ UNCHANGED <<cameras, budget, supVars, lastCmd, medias, removing, srvVars, taskRes,
                   doneQ, mainVars, seen, log>>

\* a remove_stream that leaves the entry in medias while it unmounts the paths
RemoveStream_KeepsEntry(t) ==
    /\ Unlocked
    /\ IF t \in medias
       THEN /\ removing' = [tag |-> t, paths |-> paths[t], left |-> paths[t]]
            /\ lastCall' = Call("remove_stream", t, {}, "Pending")
       ELSE /\ UNCHANGED removing
            /\ lastCall' = Call("remove_stream", t, {}, "Ok")
    /\ UNCHANGED <<cameras, budget, supVars, lastCmd, medias, paths, mounts, srvVars, taskRes,
                   doneQ, mainVars, seen, log>>

\* remove_stream(tag), `self.medias.write().await.remove(&tag)`: the entry
\* leaves medias with its paths, under the write lock; Ok(()) at once when
\* medias does not hold the tag
RemoveStream(t) ==
    /\ Unlocked
    /\ IF t \in medias
       THEN /\ medias' = medias \ {t}
            /\ paths' = [paths EXCEPT ![t] = {}]
            /\ removing' = [tag |-> t, paths |-> paths[t], left |-> paths[t]]
            /\ lastCall' = Call("remove_stream", t, {}, "Pending")
       ELSE /\ UNCHANGED <<medias, paths, removing>>
            /\ lastCall' = Call("remove_stream", t, {}, "Ok")
    /\ UNCHANGED <<cameras, budget, supVars, lastCmd, mounts, srvVars, taskRes, doneQ,
                   mainVars, seen, log>>

\* remove_stream, `for path in media.paths.iter()`: one mounts.remove_factory(path)
RemoveUnmount ==
    /\ ~Unlocked
    /\ \E p \in removing.left :
         /\ mounts' = Unmount({p})
         /\ removing' = [removing EXCEPT !.left = @ \ {p}]
    /\ UNCHANGED <<cameras, budget, supVars, lastCmd, medias, paths, lastCall, srvVars,
                   taskRes, doneQ, mainVars, seen, log>>

\* remove_stream, after the loop: media.paths.clear(), the guard is dropped, Ok(())
RemoveReturn ==
    /\ ~Unlocked /\ removing.left = {}
    /\ removing' = NoRemoval
    /\ lastCall' = Call("remove_stream", removing.tag, removing.paths, "Ok")
    /\ UNCHANGED <<cameras, budget, supVars, lastCmd, medias, paths, mounts, srvVars,
                   taskRes, doneQ, mainVars, seen, log>>

-----------------------------------------------------------------------------
(* main(): the join loop *)

\* a match that takes only a panic for a failure
JoinedFailed_PanicOnly(res) == res = "Panic"

\* Err(_) | Ok(Err(_)): "Panicked or error in task"
JoinedFailed(res) == res \in {"Panic", "Err"}

\* the tasks still in the JoinSet once `t` is joined
Remaining(t) == {x \in Tasks : taskRes[x] = "running"} \cup {doneQ[i] : i \in 2..Len(doneQ)}

\* set.join_next().await and the match on it
MainJoinNext ==
    /\ mainPc = "join_next"
    /\ doneQ # <<>>
    /\ LET t == Head(doneQ) IN
       /\ doneQ' = Tail(doneQ)
       /\ IF JoinedFailed(taskRes[t])
          THEN mainPc' = "quit" /\ mainErr' = t
          ELSE /\ mainPc' = IF Remaining(t) = {} THEN "exited" ELSE "join_next"
               /\ UNCHANGED mainErr
    /\ UNCHANGED <<cameras, budget, supVars, regVars, srvVars, taskRes, seen, log>>

\* a failure arm that does not quit the main loop
MainQuit_NoSignal ==
    /\ mainPc = "quit"
    /\ mainPc' = "return"
    /\ UNCHANGED <<cameras, budget, supVars, regVars, srvVars, taskRes, doneQ, mainErr, seen, log>>

\* rtsp.quit().await?
MainQuit ==
    /\ mainPc = "quit"
    /\ main_loop' = "quit"
    /\ mainPc' = "return"
    /\ UNCHANGED <<cameras, budget, supVars, regVars, threadSt, taskRes, doneQ, mainErr, seen, log>>

\* a return that leaves the tasks running, as detached tasks would be
MainReturn_LeavesTasks ==
    /\ mainPc = "return"
    /\ mainPc' = "exited"
    /\ UNCHANGED <<cameras, budget, supVars, regVars, srvVars, taskRes, doneQ, mainErr, seen, log>>

\* joined??: main returns the error, the JoinSet is dropped and its tasks aborted
MainReturn ==
    /\ mainPc = "return"
    /\ mainPc' = "exited"
    /\ taskRes' = [t \in Tasks |-> IF taskRes[t] = "running" THEN "Aborted" ELSE taskRes[t]]
    /\ UNCHANGED <<cameras, budget, supVars, regVars, srvVars, doneQ, mainErr, seen, log>>

-----------------------------------------------------------------------------

Next ==
    \/ SupervisorStep
    \/ RtspJoinMainLoop
    \/ \E t \in AllTags : RtspJoinFactory(t)
    \/ MainJoinNext \/ MainQuit \/ MainReturn

\* several cameras, a bounded number of retries each
Spec == Init /\ [][Next]_vars

\* one supervisor task alone: one camera with two tags, every pause configuration
NextSolo == SupervisorStep

SpecSolo == InitSolo /\ [][NextSolo]_vars

\* the same task with its events logged, and few retries
SpecLive == InitLive /\ [][NextSolo]_vars

\* one supervisor task, and a caller of the registry that removes streams
NextRegistry ==
    \/ SupervisorStep
    \/ \E t \in AllTags : RemoveStream(t)
    \/ RemoveUnmount \/ RemoveReturn

SpecRegistry == InitRegistry /\ [][NextRegistry]_vars

\* the callers of the registry alone: any operation on any tag with any paths
NextPaths ==
    \/ \E t \in AllTags : CreateStream(t)
    \/ \E t \in AllTags, ps \in SUBSET AllPaths : AddPath(t, ps)
    \/ \E t \in AllTags, ps \in SUBSET AllPaths : RemovePath(t, ps)
    \/ \E t \in AllTags : RemoveStream(t)
    \/ RemoveUnmount \/ RemoveReturn

SpecPaths == InitRegistry /\ [][NextPaths]_vars

\* one supervisor task that the runtime goes on polling: its timer fires and
\* the task is resumed after the sleep
FairSolo ==
    SpecSolo /\ WF_vars(\E c \in Cams : Sleep(c)) /\ WF_vars(\E c \in Cams : Wake(c))

-----------------------------------------------------------------------------
(* The supervisor *)

Handling(c) == pc[c] \in {"sleep", "wake"}

\* C1: whatever the phase a Retryable failure came from, the supervisor ends its
\* handling with the camera in state Disconnected and camera_main about to
\* connect; while it handles the failure the camera is in no lifecycle state,
\* and a camera about to connect is always Disconnected.
C1_RetryEndsDisconnected ==
    /\ [](\A c \in Cams :
            /\ Handling(c) => failure[c].kind = "Retry" /\ state[c] = "Moved"
            /\ pc[c] = "connect" => state[c] = "Disconnected")
    /\ [][\A c \in Cams :
            (Handling(c) /\ ~Handling(c)')
                => (state'[c] = "Disconnected" /\ pc'[c] = "connect")]_vars

\* two Retryable failures were handled and the next attempt is about to connect
C1_Witness ==
    \E c \in Cams :
        pc[c] = "connect" /\ state[c] = "Disconnected" /\ slept[c] = 2 * BackoffFloor

\* C2: neither the delay slept nor the delay kept for the next failure is ever
\* above 5 seconds.
C2_BackoffAtMostFiveSeconds ==
    \A c \in Cams : backoff[c] <= BackoffLimit /\ slept[c] <= BackoffLimit

\* C3: the first sleep lasts the floor, each later sleep lasts what
\* NextBackoff makes of the one before (its double below 5 seconds, the same
\* from there on, never less), and no step but the end of a failure's handling
\* changes the delay: streaming, pausing and resuming leave it alone.
C3_BackoffNeverLowered ==
    /\ [](\A c \in Cams : slept[c] = 0 => backoff[c] = BackoffFloor)
    /\ [][\A c \in Cams :
            /\ backoff'[c] >= backoff[c]
            /\ pc[c] # "wake" => backoff'[c] = backoff[c]
            /\ pc[c] = "sleep" /\ pc'[c] = "wake" =>
                 /\ slept'[c] >= slept[c]
                 /\ slept'[c] = IF slept[c] = 0 THEN BackoffFloor
                                ELSE IF slept[c] < BackoffLimit THEN 2 * slept[c]
                                ELSE slept[c]
            /\ ~(pc[c] = "sleep" /\ pc'[c] = "wake") => slept'[c] = slept[c]]_vars

\* the supervisor sleeps again, longer than 5 seconds, after the camera has streamed
C3_Witness ==
    \E c \in Cams :
        /\ pc[c] = "wake" /\ slept[c] > BackoffLimit
        /\ \E t \in TagsOf(c) : lastCmd[t] = "Resume"

NoPause(c) == ~cameras[c].on_motion /\ ~cameras[c].on_disconnect

PausePath == {"pause", "stop", "paused", "jump", "restream", "resume"}

\* C4, as claimed: with on_motion and on_disconnect both false no Pause command
\* is sent and stop() is never called.
C4_NeverPausesWithoutFlags ==
    \A c \in Cams :
        NoPause(c) => /\ pc[c] \notin PausePath
                      /\ \A t \in TagsOf(c) : lastCmd[t] # "Pause"

\* C4, amended: with both flags false the supervisor leaves the streaming
\* select! for the pause commands and stop() only when streaming.join()
\* resolved without an error; motion and client counts never make it pause.
C4_PausesOnlyOnJoinWithoutFlags ==
    \A c \in Cams :
        NoPause(c) => /\ trigger[c] \in {"None", "Join"}
                      /\ pc[c] \in PausePath => trigger[c] = "Join"

\* a camera with both flags false calls stop() after join() resolved Ok
C4_Witness ==
    \E c \in Cams :
        /\ NoPause(c) /\ pc[c] = "stop" /\ trigger[c] = "Join"
        /\ \A t \in TagsOf(c) : lastCmd[t] = "Pause"

\* C5: camera_main is about to send JumpToLive for the first time only when
\* every tag of the camera has answered buffer_ready = Some(true) during the wait.
C5_LiveOnlyWhenAllReady ==
    \A c \in Cams : pc[c] = "live" => seenReady[c] = TagsOf(c)

\* C7: a login() error that is the rejection is Fatal, any other is Retryable.
C7_LoginErrorsClassified ==
    \A c \in Cams :
        failure[c].cause \in LoginErrors =>
            failure[c].kind = IF failure[c].cause = "CameraLoginFail" THEN "Fatal"
                              ELSE "Retry"

-----------------------------------------------------------------------------
(* The fleet *)

InQueue(t) == \E i \in 1..Len(doneQ) : doneQ[i] = t

Finished(t) == taskRes[t] \in {"Ok", "Err", "Panic"}

Failed(t) == taskRes[t] \in {"Err", "Panic"}

\* C6, as claimed: when one supervisor ends with a Fatal failure and nothing
\* else has failed, no other task is taken down and the main loop is not quit.
C6_FatalLeavesTheOthers ==
    \A c \in Cams :
        (taskRes[c] = "Err" /\ \A o \in Tasks \ {c} : ~Failed(o))
            => /\ main_loop = "running"
               /\ \A o \in Tasks : taskRes[o] # "Aborted"

\* C6, amended: a Retryable failure of one camera and its handling change no
\* other task, nor the main loop, nor what main() sees; a supervisor ends with
\* an error only by a Fatal failure; a task is aborted only once main() has
\* returned the failure of another task; and when main() has returned the
\* failure of a supervisor the main loop is quit and no task runs any more.
C6_OnlyRetryableIsIsolated ==
    /\ [](\A c \in Cams :
            /\ taskRes[c] = "Err" => failure[c].kind = "Fatal"
            /\ taskRes[c] = "Aborted" =>
                 /\ mainPc = "exited" /\ mainErr \in Tasks \ {c}
                 /\ Failed(mainErr)
            /\ (mainPc = "exited" /\ mainErr = c) =>
                 /\ main_loop = "quit"
                 /\ \A t \in Tasks : taskRes[t] # "running")
    /\ [][\A c \in Cams :
            ((failure[c].kind # "Retry" /\ failure'[c].kind = "Retry")
                \/ (Handling(c) /\ pc'[c] # pc[c]))
            => /\ \A o \in Cams \ {c} :
                    state'[o] = state[o] /\ pc'[o] = pc[o] /\ backoff'[o] = backoff[o]
               /\ taskRes' = taskRes /\ doneQ' = doneQ
               /\ main_loop' = main_loop /\ threadSt' = threadSt
               /\ mainPc' = mainPc /\ mainErr' = mainErr]_vars

\* cam2 had a Retryable failure and went on; cam1 was rejected, main() returned
\* that error and cam2 was aborted
C6_Witness ==
    /\ mainPc = "exited" /\ mainErr = "cam1" /\ failure["cam1"].kind = "Fatal"
    /\ taskRes["cam2"] = "Aborted" /\ slept["cam2"] > 0 /\ pc["cam2"] = "streaming"

\* C8: a supervisor with a Retryable failure is handling it (sleeping, or about
\* to reset and loop): its task has not ended, main() has nothing of it to join
\* and does not return it; a supervisor task that ended with an error ended
\* with a Fatal one; and the handling ends with the sleep done and the camera
\* Disconnected.
C8_RetryStaysInSupervisor ==
    /\ [](\A c \in Cams :
            /\ failure[c].kind = "Retry" =>
                 /\ Handling(c)
                 /\ taskRes[c] \in {"running", "Aborted"}
                 /\ ~InQueue(c) /\ mainErr # c
            /\ taskRes[c] = "Err" => failure[c].kind = "Fatal")
    /\ [][\A c \in Cams :
            (failure[c].kind = "Retry" /\ failure'[c].kind # "Retry")
                => /\ failure'[c] = NoFailure /\ taskRes'[c] = "running"
                   /\ slept'[c] > 0 /\ state'[c] = "Disconnected"]_vars

\* a supervisor is about to loop after a Retryable failure of login() while
\* main() still waits in join_next with nothing to join
C8_Witness ==
    \E c \in Cams :
        /\ failure[c] = [kind |-> "Retry", cause |-> "OtherCoreError"]
        /\ pc[c] = "wake" /\ taskRes[c] = "running"
        /\ mainPc = "join_next" /\ doneQ = <<>>

\* C9, as claimed: when main() has returned a task's failure the main loop is
\* quit and every task has finished.
C9_AwaitsAllBeforeExit ==
    (mainPc = "exited" /\ mainErr # "None")
        => /\ main_loop = "quit"
           /\ \A t \in Tasks : Finished(t)

\* C9, amended: the first task main() joins that panicked or returned an error
\* makes it quit the main loop and then return that task's failure; from that
\* join on it joins no other task, and when it has returned no task runs: those
\* that had not finished are aborted. While main() waits, every finished task it
\* has not joined yet is a failed one.
C9_QuitsThenReturnsFirstFailure ==
    /\ [](/\ mainErr # "None" <=> mainPc \in {"quit", "return", "exited"}
          /\ mainErr # "None" => Failed(mainErr) /\ ~InQueue(mainErr)
          /\ main_loop = "quit" <=> mainPc \in {"return", "exited"}
          /\ mainPc = "exited" => \A t \in Tasks : taskRes[t] # "running"
          /\ mainPc = "join_next" => \A t \in Tasks : InQueue(t) => Failed(t))
    /\ [][/\ mainErr # "None" => mainErr' = mainErr
          /\ mainErr' # mainErr => mainErr' = Head(doneQ)
          /\ mainPc # "join_next" => \A t \in Tasks : InQueue(t) => InQueue(t)'
          /\ (mainPc = "return" /\ mainPc' = "exited") =>
                \A t \in Tasks : taskRes'[t] = IF taskRes[t] = "running" THEN "Aborted"
                                              ELSE taskRes[t]]_vars

\* main() has returned the failure of a task while another task, still
\* running, was aborted
C9_Witness ==
    /\ mainPc = "exited" /\ mainErr # "None" /\ main_loop = "quit"
    /\ \E t \in Tasks : taskRes[t] = "Aborted"

\* C10: the rtsp task ends without an error only once main() has quit the main
\* loop for a failure it returns; and when the rtsp task has ended, main() is
\* quitting, returning or has returned a failure, or the next task it joins is
\* a failed one: it never goes on waiting for the supervisors, and until it
\* has returned its next step is always possible.
C10_RtspEndShutsDown ==
    /\ taskRes[RtspTask] = "Ok" => mainPc \in {"return", "exited"}
    /\ Finished(RtspTask) =>
         \/ mainPc \in {"quit", "return", "exited"} /\ mainErr # "None"
         \/ /\ mainPc = "join_next" /\ doneQ # <<>>
            /\ Failed(Head(doneQ))
    /\ (Finished(RtspTask) /\ mainPc # "exited")
         => ENABLED (MainJoinNext \/ MainQuit \/ MainReturn)

\* the rtsp task ended with an error while the supervisors ran, and main()
\* returned that error
C10_Witness ==
    /\ taskRes[RtspTask] = "Err" /\ mainPc = "exited" /\ mainErr = RtspTask
    /\ \A c \in Cams : taskRes[c] = "Aborted"

-----------------------------------------------------------------------------
(* Pausing and resuming *)

\* the last poll of the present wait counted the clients, and what it counted
Counted(c) == seen[c] # <<>> /\ seen[c][Len(seen[c])].what = "clients"
Count(c) == seen[c][Len(seen[c])].val

\* C11: with on_disconnect, a client poll of the streaming select! that counts
\* no client over the tags leaves the select! for the pause (a poll that counts
\* one or more stays), and the pause then sends its commands, calls stop() and
\* has the camera Paused unless stop() fails; with on_disconnect alone, a
\* poll of the paused select! that counts a client or more leaves it for the
\* resume (a poll that counts none stays), and the resume sends JumpToLive,
\* calls stream() and has the camera Streaming unless stream() fails.
C11_ClientsPauseAndResume ==
    /\ [](\A c \in Cams : cameras[c].on_disconnect =>
            /\ (pc[c] = "streaming" /\ Counted(c)) => Count(c) >= 1
            /\ (pc[c] = "pause" /\ Counted(c)) => (Count(c) = 0 /\ trigger[c] = "Client")
            /\ (pc[c] = "pause" /\ trigger[c] = "Client") => (Counted(c) /\ Count(c) = 0)
            /\ ~cameras[c].on_motion =>
                 /\ (pc[c] = "paused" /\ Counted(c)) => Count(c) = 0
                 /\ pc[c] = "jump" => (Counted(c) /\ Count(c) >= 1))
    /\ [][\A c \in Cams : (cameras[c].on_disconnect /\ pc'[c] # pc[c]) =>
            /\ pc[c] = "pause" => pc'[c] = "stop"
            /\ pc[c] = "stop" =>
                 \/ pc'[c] = "paused" /\ state'[c] = "Paused"
                 \/ failure'[c].kind = "Retry"
            /\ pc[c] = "jump" => pc'[c] = "restream"
            /\ pc[c] = "restream" =>
                 \/ pc'[c] = "resume" /\ state'[c] = "Streaming"
                 \/ failure'[c].kind = "Retry"
            /\ pc[c] = "resume" => pc'[c] = "streaming"]_vars

\* a camera with on_disconnect alone was paused for want of clients, and its
\* poll has now counted one: it is about to resume
C11_Witness ==
    \E c \in Cams :
        /\ cameras[c].on_disconnect /\ ~cameras[c].on_motion
        /\ trigger[c] = "Client" /\ pc[c] = "jump" /\ state[c] = "Paused"
        /\ seen[c] = <<Event("clients", 1)>>
        /\ \A t \in TagsOf(c) : lastCmd[t] = "Pause"


\* the last poll of the present wait was a stop of motion, and how long it lasted
Stilled(c) == seen[c] # <<>> /\ seen[c][Len(seen[c])].what = "still"
Still(c) == seen[c][Len(seen[c])].val

\* C12: with on_motion, a stop of motion that has lasted motion_timeout or
\* longer leaves the streaming select! for the pause, which sends its
\* commands, calls stop() and has the camera Paused unless stop() fails; a
\* stop that ended sooner leaves the camera in the streaming select!.
C12_MotionPausesAfterTimeout ==
    /\ [](\A c \in Cams : cameras[c].on_motion =>
            /\ (pc[c] = "streaming" /\ Stilled(c)) => Still(c) < cameras[c].motion_timeout
            /\ (pc[c] = "pause" /\ Stilled(c)) =>
                 (Still(c) >= cameras[c].motion_timeout /\ trigger[c] = "Motion")
            /\ (pc[c] = "pause" /\ trigger[c] = "Motion") =>
                 (Stilled(c) /\ Still(c) >= cameras[c].motion_timeout))
    /\ [][\A c \in Cams : (cameras[c].on_motion /\ trigger[c] = "Motion" /\ pc'[c] # pc[c]) =>
            /\ pc[c] = "pause" => pc'[c] = "stop"
            /\ pc[c] = "stop" =>
                 \/ pc'[c] = "paused" /\ state'[c] = "Paused"
                 \/ failure'[c].kind = "Retry"]_vars

\* motion has been stopped for longer than the timeout and the camera is about
\* to send Pause
C12_Witness ==
    \E c \in Cams :
        /\ cameras[c].on_motion /\ pc[c] = "pause" /\ trigger[c] = "Motion"
        /\ seen[c] = <<Event("still", cameras[c].motion_timeout + 1)>>


-----------------------------------------------------------------------------
(* End to end *)

\* the log follows the scenario `s`
Follows(c, s) == log[c] # Lost /\ IsPrefix(InputsOf(log[c]), s)

\* what the scenario of ClientsScript is to log: JumpToLive once the buffers are
\* ready, nothing at the polls that count 1, Pause at the first poll that
\* counts 0, nothing at the second, JumpToLive and Resume at the poll that
\* counts 2; each command to both tags
ClientsRun ==
    <<Event("ready", 2), Event("JumpToLive", 2),
      Event("clients", 1), Event("clients", 1), Event("clients", 0), Event("Pause", 2),
      Event("clients", 0), Event("clients", 2), Event("JumpToLive", 2), Event("Resume", 2)>>

\* C13: a camera with on_disconnect alone whose client polls count 1, 1, 0, 0, 2
\* once the stream is live sends, at every point of that run, just the
\* commands of ClientsRun so far: one Pause per tag after the first 0, one
\* JumpToLive and one Resume per tag after the 2, and no other command.
C13_OnePauseOneResume ==
    \A c \in Cams :
        (cameras[c].on_disconnect /\ ~cameras[c].on_motion /\ Follows(c, ClientsScript))
            => /\ IsPrefix(log[c], ClientsRun)
               /\ log[c] = ClientsRun => (pc[c] = "streaming" /\ state[c] = "Streaming")

\* the whole scenario has run and the camera is back in the streaming select!
C13_Witness ==
    \E c \in Cams :
        /\ cameras[c].on_disconnect /\ ~cameras[c].on_motion
        /\ log[c] = ClientsRun /\ pc[c] = "streaming"
        /\ \A t \in TagsOf(c) : lastCmd[t] = "Resume"

\* what a scenario `s` of StreamErrorScripts is to log: JumpToLive to both tags
\* after the third poll, and nothing else before join() fails
StreamErrorRun(s) == <<s[1], s[2], s[3], Event("JumpToLive", 2), s[4]>>

\* C14: a camera with neither flag whose buffers are ready at the third poll
\* sends, up to the error of join(), one JumpToLive per tag and no other
\* command; that error is a Retryable failure, and when it is the first
\* failure of the supervisor the sleep it causes lasts the floor of the backoff.
C14_OneJumpThenRetryAtFloor ==
    \A c \in Cams : \A s \in StreamErrorScripts :
        (NoPause(c) /\ Follows(c, s))
            => /\ IsPrefix(log[c], StreamErrorRun(s))
               /\ log[c] = StreamErrorRun(s) =>
                    /\ Handling(c) /\ failure[c].kind = "Retry"
                    /\ (pc[c] = "wake" /\ backoff[c] = BackoffFloor) => slept[c] = BackoffFloor

\* the scenario has run: the first two polls saw one tag ready, the third
\* both; join() failed in the streaming select! and the supervisor has slept
C14_Witness ==
    \E c \in Cams :
        /\ NoPause(c) /\ pc[c] = "wake" /\ slept[c] = BackoffFloor
        /\ log[c] = <<Event("ready", 1), Event("ready", 1), Event("ready", 2),
                      Event("JumpToLive", 2), Event("join", 0)>>


-----------------------------------------------------------------------------
(* Self-healing *)

\* after every Retryable failure the supervisor comes to a new connect attempt
C15_RetryLeadsToConnect ==
    \A c \in {"cam1"} :
        [](failure[c].kind = "Retry" => <>(pc[c] = "connect" /\ state[c] = "Disconnected"))

\* C15: after every Retryable failure the supervisor finishes its sleep and
\* starts a new connect attempt, and a supervisor task that has ended has ended
\* by a Fatal failure.
C15_SelfHealing ==
    /\ C15_RetryLeadsToConnect
    /\ [](\A c \in Cams : pc[c] = "ended" => failure[c].kind = "Fatal")


-----------------------------------------------------------------------------
(* Independence of the sources *)

\* a step of the supervisor task of camera c
Takes(c) ==
    \/ Connect(c) \/ Login(c) \/ Stream(c) \/ BufferPoll(c) \/ BufferJoin(c) \/ GoLive(c)
    \/ StreamingJoin(c) \/ MotionStop(c) \/ ClientStop(c) \/ PauseCmds(c) \/ Stop(c)
    \/ MotionClientStart(c) \/ MotionStart(c) \/ ClientStart(c) \/ GenericResume(c)
    \/ JumpCmds(c) \/ Restream(c) \/ ResumeCmds(c) \/ Sleep(c) \/ Wake(c)

\* C16: while the supervisor of one camera stands in connect() or login(),
\* however long, every other supervisor task that has not finished can take
\* the next step of its own (to pause, to resume, to sleep, to retry), whatever
\* the state the tasks are in.
C16_SourcesNeverBlock ==
    \A c \in Cams :
        (taskRes[c] = "running" /\ pc[c] \in {"connect", "login"}) =>
            \A o \in Cams \ {c} :
                (taskRes[o] = "running" /\ pc[o] # "ended")
                    => ENABLED (Takes(o) /\ pc'[o] # pc[o])

\* cam1 still stands in its first login() while cam2 has failed, retried,
\* paused and resumed
C16_Witness ==
    /\ pc["cam1"] = "login" /\ slept["cam1"] = 0 /\ taskRes["cam1"] = "running"
    /\ slept["cam2"] > 0 /\ pc["cam2"] = "streaming" /\ taskRes["cam2"] = "running"
    /\ lastCmd["cam2::main"] = "Resume"


-----------------------------------------------------------------------------
(* Commands for a tag the registry does not hold *)

\* the positions of camera_main at which it sends a command to every tag
CommandPoints == {"live", "pause", "jump", "resume"}

\* C17: when the supervisor sends JumpToLive, Pause or Resume while the
\* registry lacks one of its tags, the "No such tag" error is a Retryable
\* failure: camera_main returns and the supervisor goes to its backoff sleep
\* instead of going on to the next step.
C17_UnknownTagIsRetryable ==
    [][\A c \in Cams :
         (pc[c] \in CommandPoints /\ pc'[c] # pc[c] /\ ~(TagsOf(c) \subseteq medias))
             => (pc'[c] = "sleep" /\ failure'[c].kind = "Retry")]_vars


-----------------------------------------------------------------------------
(* The order of the pause and of the resume sequence *)

\* every tag of the camera was last sent `cmd`
AllSent(c, cmd) == \A t \in TagsOf(c) : lastCmd[t] = cmd

\* C18: on the way from Streaming to Paused, Pause is sent to every tag of
\* the camera, then stop() is called, then the paused race begins: stop() is
\* never called before the Pause commands of that transition were sent.
C18_PauseThenStopThenPaused ==
    /\ [](\A c \in Cams : pc[c] = "stop" => AllSent(c, "Pause"))
    /\ [][\A c \in Cams :
            /\ (pc[c] = "pause" /\ pc'[c] # pc[c])
                   => (pc'[c] = "stop" /\ \A t \in TagsOf(c) : lastCmd'[t] = "Pause")
            /\ (pc[c] # "stop" /\ pc'[c] = "stop") => pc[c] = "pause"
            /\ (state[c] = "Streaming" /\ state'[c] = "Paused")
                   => (pc[c] = "stop" /\ pc'[c] = "paused" /\ AllSent(c, "Pause"))
            /\ (pc[c] # "paused" /\ pc'[c] = "paused")
                   => (pc[c] = "stop" /\ state'[c] = "Paused")]_vars

C18_Witness ==
    \E c \in Cams : pc[c] = "paused" /\ state[c] = "Paused" /\ AllSent(c, "Pause")


\* C19: on the way from Paused to Streaming, JumpToLive is sent to every tag,
\* then the stream is restarted (paused.stream()), then Resume is sent to
\* every tag, then the streaming race begins; when the restart fails the
\* iteration ends with a Retryable failure and no Resume is sent.
C19_JumpThenRestartThenResume ==
    /\ [](\A c \in Cams :
            /\ pc[c] = "restream" => (state[c] = "Paused" /\ AllSent(c, "JumpToLive"))
            /\ pc[c] = "resume" => (state[c] = "Streaming" /\ AllSent(c, "JumpToLive")))
    /\ [][\A c \in Cams :
            /\ (pc[c] = "jump" /\ pc'[c] # pc[c])
                   => (pc'[c] = "restream" /\ \A t \in TagsOf(c) : lastCmd'[t] = "JumpToLive")
            /\ (pc[c] # "restream" /\ pc'[c] = "restream") => pc[c] = "jump"
            /\ (state[c] = "Paused" /\ state'[c] = "Streaming")
                   => (pc[c] = "restream" /\ pc'[c] = "resume")
            /\ (pc[c] # "resume" /\ pc'[c] = "resume") => pc[c] = "restream"
            /\ (pc[c] = "restream" /\ pc'[c] \notin {"restream", "resume"})
                   => (pc'[c] = "sleep" /\ failure'[c].kind = "Retry" /\ lastCmd' = lastCmd)
            /\ (pc[c] = "resume" /\ pc'[c] # pc[c])
                   => (pc'[c] = "streaming" /\ state'[c] = "Streaming"
                       /\ \A t \in TagsOf(c) : lastCmd'[t] = "Resume")
            /\ (\E t \in TagsOf(c) : lastCmd[t] # "Resume" /\ lastCmd'[t] = "Resume")
                   => pc[c] = "resume"
            /\ (pc[c] # "streaming" /\ pc'[c] = "streaming") => pc[c] \in {"live", "resume"}]_vars

C19_Witness ==
    \E c \in Cams : pc[c] = "streaming" /\ state[c] = "Streaming" /\ AllSent(c, "Resume")


-----------------------------------------------------------------------------
(* Resuming with both on_motion and on_disconnect *)

\* both pause flags of the camera are set
BothFlags(c) == cameras[c].on_motion /\ cameras[c].on_disconnect

\* the last poll of the present wait began with a start of motion
Started(c) == seen[c] # <<>> /\ seen[c][1].what = "start"

\* C20: with on_motion and on_disconnect, the paused select! is left for the
\* resume only by a poll that saw motion start and then counted one client or
\* more over the tags: a poll that saw motion start and counted none stays
\* Paused, no poll counts clients before motion has started, and the camera
\* is Streaming again only through that resume.
C20_BothFlagsNeedMotionAndClient ==
    /\ [](\A c \in Cams : BothFlags(c) =>
            /\ pc[c] = "jump" => (Started(c) /\ Counted(c) /\ Count(c) >= 1)
            /\ (pc[c] = "paused" /\ seen[c] # <<>>)
                   => (Started(c) /\ Counted(c) /\ Count(c) = 0))
    /\ [][\A c \in Cams : BothFlags(c) =>
            /\ (pc[c] = "paused" /\ pc'[c] # pc[c])
                   => \/ pc'[c] = "jump" /\ state'[c] = "Paused"
                      \/ pc'[c] = "sleep" /\ failure'[c].kind = "Retry"
            /\ (state[c] = "Paused" /\ state'[c] = "Streaming") => pc[c] = "restream"
            /\ (pc[c] # "restream" /\ pc'[c] = "restream") => pc[c] = "jump"]_vars

\* a camera with both flags saw motion start while no client was there and
\* stayed Paused
C20_Witness ==
    \E c \in Cams :
        /\ BothFlags(c) /\ pc[c] = "paused" /\ state[c] = "Paused"
        /\ seen[c] = <<Event("start", 0), Event("clients", 0)>>


-----------------------------------------------------------------------------
(* The triggers of the paused select! *)

\* the camera is in the paused select! or has just left it for the resume
AtResume(c) == pc[c] \in {"paused", "jump"}

\* C21: with neither on_motion nor on_disconnect the paused select! is left
\* for the resume at once, without a reading of motion or of clients; with
\* on_motion alone only a start of motion is awaited and resumes, with
\* on_disconnect alone only the count of the clients is polled and resumes.
C21_OnlyEnabledTriggersResume ==
    /\ [](\A c \in Cams : AtResume(c) =>
            /\ (~cameras[c].on_motion /\ ~cameras[c].on_disconnect) =>
                 /\ seen[c] = <<>>
                 /\ pc[c] = "paused" => ENABLED (Takes(c) /\ pc'[c] = "jump")
            /\ (cameras[c].on_motion /\ ~cameras[c].on_disconnect) =>
                 /\ seen[c] \in {<<>>, <<Event("start", 0)>>}
                 /\ pc[c] = "jump" => seen[c] = <<Event("start", 0)>>
            /\ (cameras[c].on_disconnect /\ ~cameras[c].on_motion) =>
                 /\ seen[c] # <<>> => (Len(seen[c]) = 1 /\ Counted(c))
                 /\ pc[c] = "jump" => (Counted(c) /\ Count(c) >= 1))
    /\ [][\A c \in Cams :
            (pc[c] = "paused" /\ ~cameras[c].on_motion /\ ~cameras[c].on_disconnect)
                => (pc'[c] = "jump" /\ state'[c] = "Paused")]_vars

\* a camera with no pause flag was paused and is about to resume, with no
\* reading taken
C21_Witness ==
    \E c \in Cams :
        /\ ~cameras[c].on_motion /\ ~cameras[c].on_disconnect
        /\ pc[c] = "jump" /\ state[c] = "Paused" /\ seen[c] = <<>>


-----------------------------------------------------------------------------
(* One connect and one login for each call of camera_main *)

\* the typestates after login
Authenticated == {"LoggedIn", "Streaming", "Paused"}

\* C22: connect() and login() are each called once in a call of camera_main,
\* before the first stream(): the Streaming/Paused cycles that follow never
\* go back to them (the restart from Paused goes straight to Streaming), and
\* the camera is Disconnected again, to connect and log in anew, only in the
\* Retry arm of the supervisor after a Retryable failure.
C22_NoReauthenticationOnResume ==
    /\ [](\A c \in Cams :
            /\ pc[c] = "connect" => state[c] = "Disconnected"
            /\ pc[c] = "login" => state[c] = "Connected")
    /\ [][\A c \in Cams :
            /\ (pc[c] # "connect" /\ pc'[c] = "connect") => pc[c] = "wake"
            /\ (pc[c] # "login" /\ pc'[c] = "login") => pc[c] = "connect"
            /\ (state[c] # "Disconnected" /\ state'[c] = "Disconnected")
                   => (pc[c] = "wake" /\ failure[c].kind = "Retry")
            /\ (state[c] # "Connected" /\ state'[c] = "Connected")
                   => (state[c] = "Disconnected" /\ pc[c] = "connect")
            /\ (state[c] # "LoggedIn" /\ state'[c] = "LoggedIn")
                   => (state[c] = "Connected" /\ pc[c] = "login")
            /\ state[c] \in Authenticated => state'[c] \in Authenticated \cup {"Moved"}
            /\ (state[c] = "Paused" /\ state'[c] # state[c])
                   => state'[c] \in {"Streaming", "Moved"}]_vars

\* in its first call of camera_main a camera was paused and has restarted
\* its stream
C22_Witness ==
    \E c \in Cams :
        /\ pc[c] = "resume" /\ state[c] = "Streaming"
        /\ backoff[c] = BackoffFloor /\ failure[c] = NoFailure


-----------------------------------------------------------------------------
(* The registry *)

\* a remove_stream has taken its entry out of medias and not returned yet
Removal == removing # NoRemoval

\* C23: remove_stream(tag) takes the tag out of medias with all its paths in
\* one step under the write lock, so the tag is never in medias while its
\* paths are being unmounted; when the call returns the tag is absent and
\* none of the paths it held is mounted; on a tag medias does not hold the
\* call returns Ok and changes nothing.
C23_RemoveStreamIsAtomic ==
    /\ [](Removal => (removing.tag \notin medias /\ paths[removing.tag] = {}))
    /\ [][/\ (~Removal /\ Removal')
               => (removing'.tag \in medias /\ removing'.tag \notin medias'
                   /\ removing'.paths = paths[removing'.tag])
          /\ (Removal /\ ~Removal')
               => (/\ removing.tag \notin medias'
                   /\ \A p \in removing.paths : mounts'[p] = "None"
                   /\ lastCall' = Call("remove_stream", removing.tag, removing.paths, "Ok"))
          /\ (~Removal /\ ~Removal' /\ lastCall' # lastCall /\ lastCall'.op = "remove_stream")
               => (/\ lastCall'.tag \notin medias /\ lastCall'.res = "Ok"
                   /\ UNCHANGED <<medias, paths, mounts>>)]_vars

\* remove_stream has returned for a tag that held a path
C23_Witness ==
    /\ ~Removal /\ lastCall.op = "remove_stream" /\ lastCall.res = "Ok"
    /\ lastCall.ps # {} /\ lastCall.tag \notin medias
    /\ \A p \in lastCall.ps : mounts[p] = "None"


\* the registry operations that fail on a tag medias does not hold
PathOps == {"add_path", "remove_path"}

\* C24: add_path and remove_path on a tag medias does not hold return Err and
\* change neither medias nor a path set nor a mount; on a tag it holds they
\* return Ok, add_path records and mounts the paths given, remove_path
\* forgets and unmounts those of them the tag held, and a path the tag did
\* not hold is left as it was.
C24_PathOpsNeedTheTag ==
    [][(lastCall' # lastCall /\ lastCall'.op \in PathOps) =>
          LET t == lastCall'.tag
              ps == lastCall'.ps
          IN  IF t \notin medias
              THEN lastCall'.res = "Err" /\ UNCHANGED <<medias, paths, mounts>>
              ELSE /\ lastCall'.res = "Ok"
                   /\ medias' = medias
                   /\ \A o \in AllTags \ {t} : paths'[o] = paths[o]
                   /\ \A p \in AllPaths \ ps : mounts'[p] = mounts[p]
                   /\ lastCall'.op = "add_path" =>
                        /\ paths'[t] = paths[t] \cup ps
                        /\ \A p \in ps : mounts'[p] = t
                   /\ lastCall'.op = "remove_path" =>
                        /\ paths'[t] = paths[t] \ ps
                        /\ \A p \in ps : mounts'[p] = IF p \in paths[t] THEN "None"
                                                      ELSE mounts[p]]_vars

\* remove_path was refused for a tag that is not there
C24_Witness ==
    /\ lastCall.op = "remove_path" /\ lastCall.res = "Err"
    /\ lastCall.ps # {} /\ lastCall.tag \notin medias


\* the paths at which some factory is mounted
Mounted == {p \in AllPaths : mounts[p] # "None"}

\* the paths that the tags in medias record
Recorded == UNION {paths[t] : t \in medias}

\* C25: whenever no registry operation is in progress, the mounted paths are
\* the paths recorded for the tags in medias, and each mounted path serves
\* the factory of a tag in medias that records it.
C25_MountsMatchPaths ==
    Unlocked =>
        /\ Mounted = Recorded
        /\ \A p \in Mounted : mounts[p] \in medias /\ p \in paths[mounts[p]]


-----------------------------------------------------------------------------
(* The tags of a camera that streams are not left paused *)

\* C26: in the streaming select! the last Pause or Resume sent to each tag
\* of the camera is not Pause. JumpToLive is neither: a tag whose last
\* command was Pause when camera_main goes on to the streaming select! has to
\* be sent Resume on the way, also after a Retryable failure between a Pause
\* and its Resume.
C26_StreamingTagsNotPaused ==
    /\ [](\A c \in Cams : pc[c] = "streaming" => \A t \in TagsOf(c) : lastCmd[t] # "Pause")
    /\ [][\A c \in Cams : (pc[c] # "streaming" /\ pc'[c] = "streaming") =>
            \A t \in TagsOf(c) : lastCmd[t] = "Pause" => lastCmd'[t] = "Resume"]_vars


-----------------------------------------------------------------------------
(* camera_main has no successful end *)

\* C27: no call of camera_main returns Ok(()): a call ends with a Retryable
\* or a Fatal failure (or panics), so the supervisor task never takes the
\* "Shutting down" arm and never ends with Ok; it ends only with the Fatal
\* failure it returns, or by the panic.
C27_CameraMainNeverCompletes ==
    \A c \in Cams :
        /\ failure[c].kind \in {"None", "Retry", "Fatal", "Panic"}
        /\ taskRes[c] \in {"running", "Err", "Panic"}
        /\ pc[c] = "ended" =>
             \/ failure[c].kind = "Fatal" /\ taskRes[c] = "Err"
             \/ failure[c].kind = "Panic" /\ taskRes[c] = "Panic"

\* a supervisor task has ended, with the Fatal failure of its camera_main
C27_Witness ==
    \E c \in Cams :
        pc[c] = "ended" /\ taskRes[c] = "Err" /\ failure[c].kind = "Fatal" /\ state[c] = "Moved"

=============================================================================
